---- MODULE Spec2Model ----
(***************************************************************************)
(* EventHubConnectionConfig: the connection config created from an         *)
(* EventHub connection string and its six address / audience methods,      *)
(* plus EventHubConnectionConfig.validate.                                 *)
(*                                                                         *)
(* JavaScript values are tagged records [t, s, n, a]:                      *)
(*   t  the kind of value ("undefined", "null", "string", "number",        *)
(*      "boolean", "object", "array", "function");                         *)
(*   s  the text of a string, "true"/"false" of a boolean, and for a       *)
(*      number "finite", "NaN", "Infinity" or "-Infinity";                 *)
(*   n  a finite number in tenths (25 is 2.5, 20 is the integer 2);        *)
(*   a  the elements of an array (integers).                               *)
(***************************************************************************)
EXTENDS Integers, Sequences, FiniteSets, TLC

VARIABLES config, call, outcome, seen

vars == <<config, call, outcome, seen>>

(* Finite numbers range over -MaxTenths/10 .. MaxTenths/10 in steps of 0.1. *)
MaxTenths == 10

-----------------------------------------------------------------------------
(* JavaScript values *)

Undefined == [t |-> "undefined", s |-> "", n |-> 0, a |-> <<>>]
Null == [t |-> "null", s |-> "", n |-> 0, a |-> <<>>]
Str(x) == [t |-> "string", s |-> x, n |-> 0, a |-> <<>>]
Num(k) == [t |-> "number", s |-> "finite", n |-> k, a |-> <<>>]
NaN == [t |-> "number", s |-> "NaN", n |-> 0, a |-> <<>>]
Infinity == [t |-> "number", s |-> "Infinity", n |-> 0, a |-> <<>>]
Bool(b) == [t |-> "boolean", s |-> IF b THEN "true" ELSE "false", n |-> 0, a |-> <<>>]
Obj == [t |-> "object", s |-> "", n |-> 0, a |-> <<>>]
Arr(e) == [t |-> "array", s |-> "", n |-> 0, a |-> e]
Fn == [t |-> "function", s |-> "", n |-> 0, a |-> <<>>]

(* typeof v *)
TypeOf(v) ==
    CASE v.t = "undefined" -> "undefined"
      [] v.t = "null" -> "object"
      [] v.t = "string" -> "string"
      [] v.t = "number" -> "number"
      [] v.t = "boolean" -> "boolean"
      [] v.t = "object" -> "object"
      [] v.t = "array" -> "object"
      [] v.t = "function" -> "function"

(* v == undefined (loose equality: true of undefined and null only) *)
LooseEqUndefined(v) == v.t \in {"undefined", "null"}

(* Truthy, were the default applied to an omitted argument only *)
Truthy_OnlyUndefined(v) == v.t # "undefined"

(* !v is false *)
Truthy(v) ==
    CASE v.t \in {"undefined", "null"} -> FALSE
      [] v.t = "string" -> v.s # ""
      [] v.t = "number" -> ~(v.s = "NaN" \/ (v.s = "finite" /\ v.n = 0))
      [] v.t = "boolean" -> v.s = "true"
      [] OTHER -> TRUE

IsInteger(v) == v.t = "number" /\ v.s = "finite" /\ v.n % 10 = 0

Digit(d) == <<"0", "1", "2", "3", "4", "5", "6", "7", "8", "9">>[d + 1]

RECURSIVE NatToString(_)
NatToString(m) ==
    IF m < 10 THEN Digit(m) ELSE NatToString(m \div 10) \o Digit(m % 10)

Abs(k) == IF k < 0 THEN -k ELSE k

(* Number::toString of the finite number k/10 *)
TenthsToString(k) ==
    (IF k < 0 THEN "-" ELSE "")
        \o NatToString(Abs(k) \div 10)
        \o (IF Abs(k) % 10 = 0 THEN "" ELSE "." \o Digit(Abs(k) % 10))

RECURSIVE Join(_)
Join(e) ==
    IF Len(e) = 0 THEN ""
    ELSE IF Len(e) = 1 THEN TenthsToString(10 * e[1])
    ELSE TenthsToString(10 * e[1]) \o "," \o Join(Tail(e))

(* The string a template literal `${v}` substitutes for v *)
TemplateString(v) ==
    CASE v.t = "undefined" -> "undefined"
      [] v.t = "null" -> "null"
      [] v.t = "string" -> v.s
      [] v.t = "number" -> IF v.s = "finite" THEN TenthsToString(v.n) ELSE v.s
      [] v.t = "boolean" -> v.s
      [] v.t = "object" -> "[object Object]"
      [] v.t = "array" -> Join(v.a)

(* What a call does: it returns a string, or throws an error *)
Return(x) == [kind |-> "return", value |-> x, error |-> "", message |-> ""]
Throw(e, m) == [kind |-> "throw", value |-> "", error |-> e, message |-> m]
ReturnVoid == [kind |-> "void", value |-> "", error |-> "", message |-> ""]

-----------------------------------------------------------------------------
(* Inputs *)

Numbers ==
    {Num(k) : k \in -MaxTenths..MaxTenths} \cup {Num(20), Num(25), Num(120), NaN, Infinity}

Strings == {Str(""), Str("2"), Str("p1")}

NonPrimitives == {Bool(TRUE), Bool(FALSE), Obj, Arr(<<>>), Arr(<<1, 2>>), Fn}

PartitionIds == {Undefined, Null} \cup Strings \cup Numbers \cup NonPrimitives

ConsumerGroups ==
    {Undefined, Null, Str(""), Str("$default"), Str("cg1"),
     Bool(FALSE), Num(70), Arr(<<1, 2>>)}

Endpoints == {"sb://ns.example.net/", "sb://a/"}

EntityPaths == {Str("hub1")}

(* A connection string, by the fields it holds *)
ConnectionStrings ==
    [Endpoint : Endpoints, EntityPath : EntityPaths \cup {Undefined}]

Paths == {Undefined, Str("hub2")}

-----------------------------------------------------------------------------
(* ConnectionConfig, the collaborator of ./connectionConfig *)

ConnectionConfigCreate(connectionString, path) ==
    [endpoint |-> Str(connectionString.Endpoint),
     entityPath |-> IF path # Undefined THEN path ELSE connectionString.EntityPath]

ConnectionConfigValidate(cfg, options) ==
    IF options.isEntityPathRequired /\ cfg.entityPath = Undefined
    THEN Throw("ValidationError", "Missing 'entityPath' in configuration")
    ELSE ReturnVoid

-----------------------------------------------------------------------------
(* EventHubConnectionConfig *)

create(connectionString, path) == ConnectionConfigCreate(connectionString, path)

(* getEventHubManagementAudience, were the entityPath left out *)
getEventHubManagementAudience_NoEntityPath(cfg) ==
    Return(TemplateString(cfg.endpoint) \o "/$management")

getEventHubManagementAudience(cfg) ==
    Return(TemplateString(cfg.endpoint) \o TemplateString(cfg.entityPath) \o "/$management")

getEventHubManagementAddress(cfg) ==
    Return(TemplateString(cfg.entityPath) \o "/$management")

(* getEventHubSenderAudience, were the endpoint left out when no partitionId is given *)
getEventHubSenderAudience_NoEndpoint(cfg, partitionId) ==
    IF ~LooseEqUndefined(partitionId)
    THEN IF TypeOf(partitionId) # "string" /\ TypeOf(partitionId) # "number"
         THEN Throw("TypeError", "'partitionId' must be of type 'string' or 'number'.")
         ELSE Return(TemplateString(cfg.endpoint) \o TemplateString(cfg.entityPath)
                         \o "/Partitions/" \o TemplateString(partitionId))
    ELSE Return(TemplateString(cfg.entityPath))

(* getEventHubSenderAudience, were partitionId compared with !== undefined *)
getEventHubSenderAudience_StrictUndefined(cfg, partitionId) ==
    IF partitionId # Undefined
    THEN IF TypeOf(partitionId) # "string" /\ TypeOf(partitionId) # "number"
         THEN Throw("TypeError", "'partitionId' must be of type 'string' or 'number'.")
         ELSE Return(TemplateString(cfg.endpoint) \o TemplateString(cfg.entityPath)
                         \o "/Partitions/" \o TemplateString(partitionId))
    ELSE Return(TemplateString(cfg.endpoint) \o TemplateString(cfg.entityPath))

getEventHubSenderAudience(cfg, partitionId) ==
    IF ~LooseEqUndefined(partitionId)
    THEN IF TypeOf(partitionId) # "string" /\ TypeOf(partitionId) # "number"
         THEN Throw("TypeError", "'partitionId' must be of type 'string' or 'number'.")
         ELSE Return(TemplateString(cfg.endpoint) \o TemplateString(cfg.entityPath)
                         \o "/Partitions/" \o TemplateString(partitionId))
    ELSE Return(TemplateString(cfg.endpoint) \o TemplateString(cfg.entityPath))

(* getEventHubSenderAddress, were the "/" before the partitionId left out *)
getEventHubSenderAddress_NoSeparator(cfg, partitionId) ==
    IF ~LooseEqUndefined(partitionId)
    THEN IF TypeOf(partitionId) # "string" /\ TypeOf(partitionId) # "number"
         THEN Throw("TypeError", "'partitionId' must be of type 'string' or 'number'.")
         ELSE Return(TemplateString(cfg.entityPath) \o "/Partitions" \o TemplateString(partitionId))
    ELSE Return(TemplateString(cfg.entityPath))

(* getEventHubSenderAddress, were the type of the partitionId not checked *)
getEventHubSenderAddress_NoTypeCheck(cfg, partitionId) ==
    IF ~LooseEqUndefined(partitionId)
    THEN Return(TemplateString(cfg.entityPath) \o "/Partitions/" \o TemplateString(partitionId))
    ELSE Return(TemplateString(cfg.entityPath))

getEventHubSenderAddress(cfg, partitionId) ==
    IF ~LooseEqUndefined(partitionId)
    THEN IF TypeOf(partitionId) # "string" /\ TypeOf(partitionId) # "number"
         THEN Throw("TypeError", "'partitionId' must be of type 'string' or 'number'.")
         ELSE Return(TemplateString(cfg.entityPath) \o "/Partitions/" \o TemplateString(partitionId))
    ELSE Return(TemplateString(cfg.entityPath))

(* getEventHubReceiverAudience, were the partitionId optional as it is for a sender *)
getEventHubReceiverAudience_OptionalPartitionId(cfg, partitionId, consumergroup) ==
    LET cg == IF ~Truthy(consumergroup) THEN Str("$default") ELSE consumergroup
    IN  IF ~LooseEqUndefined(partitionId)
        THEN IF TypeOf(partitionId) # "string" /\ TypeOf(partitionId) # "number"
             THEN Throw("TypeError",
                        "'partitionId' is a required parameter and must be of "
                            \o "type 'string' or 'number'")
             ELSE Return(TemplateString(cfg.endpoint) \o TemplateString(cfg.entityPath)
                             \o "/ConsumerGroups/" \o TemplateString(cg) \o "/"
                             \o "Partitions/" \o TemplateString(partitionId))
        ELSE Return(TemplateString(cfg.endpoint) \o TemplateString(cfg.entityPath)
                        \o "/ConsumerGroups/" \o TemplateString(cg))

getEventHubReceiverAudience(cfg, partitionId, consumergroup) ==
    IF LooseEqUndefined(partitionId)
          \/ (TypeOf(partitionId) # "string" /\ TypeOf(partitionId) # "number")
    THEN Throw("TypeError",
               "'partitionId' is a required parameter and must be of "
                   \o "type 'string' or 'number'")
    ELSE LET cg == IF ~Truthy(consumergroup) THEN Str("$default") ELSE consumergroup
         IN  Return(TemplateString(cfg.endpoint) \o TemplateString(cfg.entityPath)
                        \o "/ConsumerGroups/" \o TemplateString(cg) \o "/"
                        \o "Partitions/" \o TemplateString(partitionId))

(* getEventHubReceiverAddress, were the consumer group and the partition swapped *)
getEventHubReceiverAddress_Swapped(cfg, partitionId, consumergroup) ==
    IF LooseEqUndefined(partitionId)
          \/ (TypeOf(partitionId) # "string" /\ TypeOf(partitionId) # "number")
    THEN Throw("TypeError",
               "'partitionId' is a required parameter and must be of "
                   \o "type 'string' or 'number'")
    ELSE LET cg == IF ~Truthy(consumergroup) THEN Str("$default") ELSE consumergroup
         IN  Return(TemplateString(cfg.entityPath) \o "/Partitions/"
                        \o TemplateString(partitionId) \o "/ConsumerGroups/"
                        \o TemplateString(cg))

(* getEventHubReceiverAddress, were a string the only type accepted *)
getEventHubReceiverAddress_StringOnly(cfg, partitionId, consumergroup) ==
    IF LooseEqUndefined(partitionId) \/ TypeOf(partitionId) # "string"
    THEN Throw("TypeError",
               "'partitionId' is a required parameter and must be of "
                   \o "type 'string' or 'number'")
    ELSE LET cg == IF ~Truthy(consumergroup) THEN Str("$default") ELSE consumergroup
         IN  Return(TemplateString(cfg.entityPath) \o "/ConsumerGroups/" \o TemplateString(cg)
                        \o "/Partitions/" \o TemplateString(partitionId))

getEventHubReceiverAddress(cfg, partitionId, consumergroup) ==
    IF LooseEqUndefined(partitionId)
          \/ (TypeOf(partitionId) # "string" /\ TypeOf(partitionId) # "number")
    THEN Throw("TypeError",
               "'partitionId' is a required parameter and must be of "
                   \o "type 'string' or 'number'")
    ELSE LET cg == IF ~Truthy(consumergroup) THEN Str("$default") ELSE consumergroup
         IN  Return(TemplateString(cfg.entityPath) \o "/ConsumerGroups/" \o TemplateString(cg)
                        \o "/Partitions/" \o TemplateString(partitionId))

(* validate, were the entity path not marked as required *)
validate_EntityPathOptional(cfg) ==
    ConnectionConfigValidate(cfg, [isEntityPathRequired |-> FALSE])

validate(cfg) == ConnectionConfigValidate(cfg, [isEntityPathRequired |-> TRUE])

-----------------------------------------------------------------------------
(* The state machine: a config is created, then its methods are called *)

NoConfig == [endpoint |-> Undefined, entityPath |-> Undefined]

Call(op, p, cg) == [op |-> op, partitionId |-> p, consumergroup |-> cg]

(* seen: the first call made on the config since it was created, with the
   config it was made on and its outcome, and whether another call has been
   made since. It is a record of the run, not a field of the program; only
   the runs of SpecRepeat keep it. *)
NoneSeen ==
    [config |-> NoConfig, call |-> Call("none", Undefined, Undefined),
     outcome |-> ReturnVoid, between |-> FALSE]

Init ==
    /\ config = NoConfig
    /\ call = Call("none", Undefined, Undefined)
    /\ outcome = ReturnVoid
    /\ seen = NoneSeen

Created == call.op # "none"

CreateCall ==
    \E cs \in ConnectionStrings, path \in Paths :
        /\ config' = create(cs, path)
        /\ call' = Call("create", Undefined, Undefined)
        /\ outcome' = ReturnVoid

ValidateCall ==
    /\ Created
    /\ call' = Call("validate", Undefined, Undefined)
    /\ outcome' = validate(config)
    /\ UNCHANGED config

ManagementAudienceCall ==
    /\ Created
    /\ call' = Call("getEventHubManagementAudience", Undefined, Undefined)
    /\ outcome' = getEventHubManagementAudience(config)
    /\ UNCHANGED config

ManagementAddressCall ==
    /\ Created
    /\ call' = Call("getEventHubManagementAddress", Undefined, Undefined)
    /\ outcome' = getEventHubManagementAddress(config)
    /\ UNCHANGED config

SenderAudienceCall(P) ==
    /\ Created
    /\ \E p \in P :
        /\ call' = Call("getEventHubSenderAudience", p, Undefined)
        /\ outcome' = getEventHubSenderAudience(config, p)
    /\ UNCHANGED config

(* a sender address call, were it to store the address it builds in the config *)
SenderAddressCall_StoresAddress(P) ==
    /\ Created
    /\ \E p \in P :
        /\ call' = Call("getEventHubSenderAddress", p, Undefined)
        /\ outcome' = getEventHubSenderAddress(config, p)
        /\ config' = IF outcome'.kind = "return"
                     THEN [config EXCEPT !.entityPath = Str(outcome'.value)]
                     ELSE config

SenderAddressCall(P) ==
    /\ Created
    /\ \E p \in P :
        /\ call' = Call("getEventHubSenderAddress", p, Undefined)
        /\ outcome' = getEventHubSenderAddress(config, p)
    /\ UNCHANGED config

ReceiverAudienceCall(P, G) ==
    /\ Created
    /\ \E p \in P, cg \in G :
        /\ call' = Call("getEventHubReceiverAudience", p, cg)
        /\ outcome' = getEventHubReceiverAudience(config, p, cg)
    /\ UNCHANGED config

ReceiverAddressCall(P, G) ==
    /\ Created
    /\ \E p \in P, cg \in G :
        /\ call' = Call("getEventHubReceiverAddress", p, cg)
        /\ outcome' = getEventHubReceiverAddress(config, p, cg)
    /\ UNCHANGED config

Create == CreateCall /\ UNCHANGED seen

Validate == ValidateCall /\ UNCHANGED seen

ManagementAudience == ManagementAudienceCall /\ UNCHANGED seen

ManagementAddress == ManagementAddressCall /\ UNCHANGED seen

SenderAudience == SenderAudienceCall(PartitionIds) /\ UNCHANGED seen

SenderAddress == SenderAddressCall(PartitionIds) /\ UNCHANGED seen

ReceiverAudience == ReceiverAudienceCall(PartitionIds, ConsumerGroups) /\ UNCHANGED seen

ReceiverAddress == ReceiverAddressCall(PartitionIds, ConsumerGroups) /\ UNCHANGED seen

Next ==
    \/ Create
    \/ Validate
    \/ ManagementAudience
    \/ ManagementAddress
    \/ SenderAudience
    \/ SenderAddress
    \/ ReceiverAudience
    \/ ReceiverAddress

Spec == Init /\ [][Next]_vars

-----------------------------------------------------------------------------
(* Runs that keep the record seen, over fewer arguments: each kind of
   partitionId and of consumer group once. *)

RepeatPartitionIds ==
    {Undefined, Null, Str("p1"), Num(20), Num(25), Bool(TRUE), Arr(<<1, 2>>)}

RepeatConsumerGroups == {Undefined, Str(""), Str("cg1")}

(* the call just made is recorded if it is the first on this config *)
Remember ==
    seen' = IF seen = NoneSeen
            THEN [config |-> config, call |-> call', outcome |-> outcome',
                  between |-> FALSE]
            ELSE [seen EXCEPT !.between = seen.between \/ call' # seen.call]

RepeatCreate == CreateCall /\ seen' = NoneSeen

RepeatManagementAudience == ManagementAudienceCall /\ Remember

RepeatManagementAddress == ManagementAddressCall /\ Remember

RepeatSenderAudience == SenderAudienceCall(RepeatPartitionIds) /\ Remember

RepeatSenderAddress == SenderAddressCall(RepeatPartitionIds) /\ Remember

RepeatReceiverAudience ==
    ReceiverAudienceCall(RepeatPartitionIds, RepeatConsumerGroups) /\ Remember

RepeatReceiverAddress ==
    ReceiverAddressCall(RepeatPartitionIds, RepeatConsumerGroups) /\ Remember

NextRepeat ==
    \/ RepeatCreate
    \/ RepeatManagementAudience
    \/ RepeatManagementAddress
    \/ RepeatSenderAudience
    \/ RepeatSenderAddress
    \/ RepeatReceiverAudience
    \/ RepeatReceiverAddress

SpecRepeat == Init /\ [][NextRepeat]_vars

-----------------------------------------------------------------------------
(* Vocabulary of the properties *)

SenderOps == {"getEventHubSenderAddress", "getEventHubSenderAudience"}

ReceiverOps == {"getEventHubReceiverAddress", "getEventHubReceiverAudience"}

(* a partitionId the documentation calls valid: a string or an integer *)
ValidPartitionId(p) == p.t = "string" \/ IsInteger(p)

(* a partitionId that is passed: neither undefined nor null *)
Present(p) == p.t \notin {"undefined", "null"}

NonEmptyString(v) == v.t = "string" /\ v.s # ""

ThrowsTypeError ==
    /\ outcome.kind = "throw"
    /\ outcome.error = "TypeError"
    /\ outcome.value = ""
    /\ outcome.message \in
          {"'partitionId' must be of type 'string' or 'number'.",
           "'partitionId' is a required parameter and must be of type 'string' or 'number'"}

-----------------------------------------------------------------------------
(* C1: getEventHubSenderAddress(p) with a string or integer p returns
   entityPath + "/Partitions/" + p, and getEventHubSenderAddress() with no
   argument returns exactly the entityPath of the config. *)
C1_SenderAddress ==
    call.op = "getEventHubSenderAddress" =>
        /\ ValidPartitionId(call.partitionId) =>
              outcome = Return(TemplateString(config.entityPath) \o "/Partitions/"
                                   \o TemplateString(call.partitionId))
        /\ (call.partitionId = Undefined /\ config.entityPath.t = "string") =>
              outcome = Return(config.entityPath.s)

C1_Witness ==
    /\ call = Call("getEventHubSenderAddress", Num(120), Undefined)
    /\ config.entityPath = Str("hub1")
    /\ outcome = Return("hub1/Partitions/12")

(* C2: getEventHubReceiverAddress(p, cg) with a string or integer p and a
   non-empty consumer group name cg returns
   entityPath + "/ConsumerGroups/" + cg + "/Partitions/" + p. *)
C2_ReceiverAddress ==
    (/\ call.op = "getEventHubReceiverAddress"
     /\ ValidPartitionId(call.partitionId)
     /\ NonEmptyString(call.consumergroup)) =>
        outcome = Return(TemplateString(config.entityPath) \o "/ConsumerGroups/"
                             \o call.consumergroup.s \o "/Partitions/"
                             \o TemplateString(call.partitionId))

C2_Witness ==
    /\ call = Call("getEventHubReceiverAddress", Num(20), Str("cg1"))
    /\ config.entityPath = Str("hub1")
    /\ outcome = Return("hub1/ConsumerGroups/cg1/Partitions/2")

(* C3: a receiver address or audience call whose consumer group is omitted,
   null or the empty string has the outcome of the same call with consumer
   group "$default". *)
C3_DefaultConsumerGroup ==
    call.consumergroup \in {Undefined, Null, Str("")} =>
        /\ call.op = "getEventHubReceiverAddress" =>
              outcome = getEventHubReceiverAddress(config, call.partitionId, Str("$default"))
        /\ call.op = "getEventHubReceiverAudience" =>
              outcome = getEventHubReceiverAudience(config, call.partitionId, Str("$default"))

C3_Witness ==
    /\ call = Call("getEventHubReceiverAddress", Str("p1"), Str(""))
    /\ config.entityPath = Str("hub1")
    /\ outcome = Return("hub1/ConsumerGroups/$default/Partitions/p1")

(* C4: an audience call returns the endpoint followed by what the address
   call with the same arguments returns, and it fails exactly when that
   address call fails. *)
C4_AudienceIsEndpointPlusAddress ==
    LET address ==
            IF call.op = "getEventHubSenderAudience"
            THEN getEventHubSenderAddress(config, call.partitionId)
            ELSE getEventHubReceiverAddress(config, call.partitionId, call.consumergroup)
    IN  call.op \in {"getEventHubSenderAudience", "getEventHubReceiverAudience"} =>
            /\ (outcome.kind = "throw") <=> (address.kind = "throw")
            /\ address.kind = "return" =>
                  outcome = Return(config.endpoint.s \o address.value)

C4_Witness ==
    /\ call = Call("getEventHubReceiverAudience", Num(20), Str("cg1"))
    /\ config = [endpoint |-> Str("sb://ns.example.net/"), entityPath |-> Str("hub1")]
    /\ outcome = Return("sb://ns.example.net/hub1/ConsumerGroups/cg1/Partitions/2")

(* C5: getEventHubManagementAddress() returns entityPath + "/$management",
   getEventHubManagementAudience() returns endpoint + entityPath +
   "/$management", and neither fails. *)
C5_Management ==
    /\ call.op = "getEventHubManagementAddress" =>
          outcome = Return(TemplateString(config.entityPath) \o "/$management")
    /\ call.op = "getEventHubManagementAudience" =>
          outcome = Return(config.endpoint.s \o TemplateString(config.entityPath)
                               \o "/$management")

C5_Witness ==
    /\ call.op = "getEventHubManagementAudience"
    /\ config = [endpoint |-> Str("sb://a/"), entityPath |-> Str("hub2")]
    /\ outcome = Return("sb://a/hub2/$management")

(* C6: a receiver address or audience call whose partitionId is undefined or
   null throws the TypeError and returns no string, whatever the consumer
   group is. *)
C6_ReceiverRequiresPartitionId ==
    (call.op \in ReceiverOps /\ call.partitionId \in {Undefined, Null}) =>
        ThrowsTypeError

C6_Witness ==
    /\ call = Call("getEventHubReceiverAudience", Null, Str("cg1"))
    /\ outcome.kind = "throw"

(* C7: a boolean, an object or an array passed as partitionId to any of the
   four sender and receiver operations throws the TypeError, whatever the
   consumer group is. *)
C7_RejectsBooleanObjectArray ==
    (/\ call.op \in SenderOps \cup ReceiverOps
     /\ call.partitionId.t \in {"boolean", "object", "array"}) =>
        ThrowsTypeError

C7_Witness ==
    /\ call = Call("getEventHubSenderAudience", Arr(<<1, 2>>), Undefined)
    /\ outcome.kind = "throw"

(* C8, as stated: a partitionId that is passed and is neither a string nor
   an integer (a non-integer number included) is rejected with the TypeError
   by each of the four sender and receiver operations. *)
C8_RejectsNonIntegers ==
    (/\ call.op \in SenderOps \cup ReceiverOps
     /\ Present(call.partitionId)
     /\ ~ValidPartitionId(call.partitionId)) =>
        ThrowsTypeError

(* C8, amended: a partitionId that is passed is accepted exactly when its
   runtime type is string or number; one that is neither is rejected with
   the TypeError naming 'partitionId' and the types 'string' and 'number',
   and every number, a non-integer or NaN included, is accepted. *)
C8_RejectsNonStringNonNumber ==
    (call.op \in SenderOps \cup ReceiverOps /\ Present(call.partitionId)) =>
        IF call.partitionId.t \in {"string", "number"}
        THEN outcome.kind = "return"
        ELSE ThrowsTypeError

C8_Witness ==
    /\ call = Call("getEventHubSenderAddress", Num(25), Undefined)
    /\ config.entityPath = Str("hub1")
    /\ outcome = Return("hub1/Partitions/2.5")

(* C9: every config that create returns has a non-empty endpoint and a
   non-empty entityPath. *)
C9_CreatedConfigNonEmpty ==
    Created => (NonEmptyString(config.endpoint) /\ NonEmptyString(config.entityPath))

(* C10: validate(config) fails with the validator's error, unchanged, when
   the entityPath of the config is missing, succeeds otherwise, and leaves
   the config as it was. *)
C10_ValidateRequiresEntityPath ==
    [][call'.op = "validate" =>
          /\ config' = config
          /\ outcome' = ConnectionConfigValidate(config, [isEntityPathRequired |-> TRUE])
          /\ (outcome'.kind = "throw") <=> (config.entityPath = Undefined)
          /\ (outcome'.kind # "throw") => outcome' = ReturnVoid]_vars

C10_Witness ==
    /\ call.op = "validate"
    /\ config.entityPath = Undefined
    /\ outcome.kind = "throw"
    /\ outcome.error = "ValidationError"

(* C11: across any sequence of calls to the six address and audience
   operations on a config, failing ones included, the endpoint and entityPath
   of the config stay what they were at the first call, and a call repeating
   the first call's operation and arguments has the first call's outcome,
   whatever calls were made in between. *)
C11_CallsArePure ==
    seen # NoneSeen =>
        /\ config = seen.config
        /\ call = seen.call => outcome = seen.outcome

C11_Witness ==
    /\ seen.call = Call("getEventHubReceiverAddress", Num(20), Undefined)
    /\ seen.between
    /\ call = seen.call
    /\ config = [endpoint |-> Str("sb://a/"), entityPath |-> Str("hub1")]
    /\ outcome = Return("hub1/ConsumerGroups/$default/Partitions/2")

(* C12: a sender address or audience call whose partitionId is undefined or
   null does not fail: null is treated like an omitted argument and the call
   returns the form without a partition, `${entityPath}` for the address and
   `${endpoint}${entityPath}` for the audience; a receiver address or
   audience call rejects undefined and null alike with the TypeError. *)
C12_SenderOptionalReceiverRequired ==
    call.partitionId \in {Undefined, Null} =>
        /\ call.op = "getEventHubSenderAddress" =>
              outcome = Return(TemplateString(config.entityPath))
        /\ call.op = "getEventHubSenderAudience" =>
              outcome = Return(config.endpoint.s \o TemplateString(config.entityPath))
        /\ call.op \in ReceiverOps =>
              (outcome.kind = "throw" /\ outcome.error = "TypeError")

C12_Witness ==
    /\ call = Call("getEventHubSenderAudience", Null, Undefined)
    /\ config = [endpoint |-> Str("sb://a/"), entityPath |-> Str("hub2")]
    /\ outcome = Return("sb://a/hub2")

====
